---- MODULE Spec2Model ----
(***************************************************************************)
(* Model of the Spotify polling client of tuna                             *)
(* (src/src/query/spotify_source.cpp): the token operations, the poll      *)
(* cycle, the transport with its backoff statics and the detached command  *)
(* threads.                                                                *)
(*                                                                         *)
(* Time: one clock `now`, counted in seconds.  util::epoch() is `now`;     *)
(* os_gettime_ns() is the same clock, and the conversion                   *)
(* `m_timeout_length *= SECOND_TO_NS` keeps the value in the clock's unit. *)
(* JSON values are modelled by the cases the code distinguishes: a field   *)
(* that is absent or of the wrong type is "absent" (-1 for numbers).       *)
(***************************************************************************)
EXTENDS Integers, Sequences, FiniteSets, Bags, TLC

VARIABLES
    now,                 \* the clock, seconds
    m_logged_in,         \* TokenState
    m_token,
    m_refresh_token,
    m_token_termination,
    m_creds,             \* Base64 credential blob ("" when none configured)
    play_state,          \* the integer of each enumerator of enum play_state
    m_timout_start,      \* rate-limit cooldown armed by Retry-After
    m_timeout_length,
    m_current,           \* the playback record: a map from set fields to values
    timeout_start,       \* the statics of execute_command
    timeout,
    timeout_multiplier,
    threads,             \* the bag of detached command threads
    config,              \* the token state as save() last persisted it
    thread_mutex,        \* tuna_thread::thread_mutex: who holds it
    thread_flag,         \* tuna_thread: the polling thread is running
    poller,              \* the polling thread's position inside refresh()
    loader,              \* config::load's position
    auth_failed,         \* history: the last answered poll was refused (401)
    fails,               \* history: transport failures since the last reset
    last                 \* history: what the most recent operation did

tokvars == <<m_logged_in, m_token, m_refresh_token, m_token_termination>>
ratevars == <<m_timout_start, m_timeout_length>>
statics == <<timeout_start, timeout, timeout_multiplier>>
fixed == <<m_creds, play_state>>
lockvars == <<thread_mutex, thread_flag, poller, loader>>
vars == <<now, m_logged_in, m_token, m_refresh_token, m_token_termination,
          m_creds, play_state, m_timout_start, m_timeout_length, m_current,
          timeout_start, timeout, timeout_multiplier, threads, config,
          thread_mutex, thread_flag, poller, loader, auth_failed, fails,
          last>>

----------------------------------------------------------------------------
(* Bounds *)

MaxTime == 3          \* clock limit of the token and record specifications
MaxExpires == 2
MaxProgress == 1
MaxRetry == 2
MaxThreads == 2       \* command threads alive at a time
MaxMultiplier == 3    \* a command thread's failure is cut off above it
BackoffMaxTime == 6   \* clock limit of the backoff specification
MaxSeconds == 30      \* largest Retry-After value written into a header
MaxCommands == 1      \* command threads alive at a time, command specification
CommandMaxTime == 2   \* clock limit of the command specification
MaxParts == 4         \* parts of a release date, joined by "-"

----------------------------------------------------------------------------
(* Values *)

AccessTokens == {"a1", "a2"}
RefreshTokens == {"r1", "r2"}
ExpiresIn == 1..MaxExpires

\* A decoded token-endpoint response: "null" (no request, transport failure
\* or unparseable body), a JSON array, or a JSON object with these fields.
NullDoc == [kind |-> "null", access_token |-> "absent",
            refresh_token |-> "absent", expires_in |-> -1, error |-> FALSE]

TokenDocs ==
    {NullDoc} \cup
    [kind : {"array"}, access_token : {"absent"}, refresh_token : {"absent"},
     expires_in : {-1}, error : {FALSE}] \cup
    [kind : {"object"}, access_token : AccessTokens \cup {"absent"},
     refresh_token : RefreshTokens \cup {"absent", ""},
     expires_in : ExpiresIn \cup {-1}, error : BOOLEAN]

\* QJsonDocument::object(): the empty object for a document that is not one.
DocObject(doc) ==
    IF doc.kind = "object" THEN doc
    ELSE [doc EXCEPT !.access_token = "absent", !.refresh_token = "absent",
                     !.expires_in = -1, !.error = FALSE]

HTTP_OK == 200
HTTP_NO_CONTENT == 204
STATUS_RETRY_AFTER == 429
BackoffStep == 5

\* What the network does to one request handed to curl_easy_perform: a
\* transport failure, or a response with a status, a body and a header.
\* The header is a sequence of characters; "R" stands for the text
\* "Retry-After: ".
Digits == <<"0", "1", "2", "3", "4", "5", "6", "7", "8", "9">>

DigitChar(n) == Digits[n + 1]

PlainHeader == <<"x", "\n">>

RetryHeader(n) == <<"x", "\n", "R", DigitChar(n), "\n">>

Headers == {PlainHeader} \cup {RetryHeader(n) : n \in 0..MaxRetry}

\* A number as the server writes it: decimal digits, most significant first.
RECURSIVE Decimal(_)
Decimal(n) ==
    IF n < 10 THEN <<DigitChar(n)>>
    ELSE Decimal(n \div 10) \o <<DigitChar(n % 10)>>

\* A header with the line `Retry-After: n`, ended by "\n" or by "\r\n",
\* followed by the lines of tail.
RetryText(n, ending, tail) ==
    <<"x", "\n", "R">> \o Decimal(n) \o ending \o tail

LineEnds == {<<"\n">>, <<"\r", "\n">>}

Tails == {<<>>, <<"y", "\n">>}

\* Headers without the text "Retry-After: " ("r" stands for its lower-case
\* spelling, which find() does not match).
PlainTexts == {PlainHeader, <<"x", "\n", "r", "7", "\n">>}

HeaderTexts ==
    PlainTexts \cup {RetryText(n, e, tl) :
                        n \in 0..MaxSeconds, e \in LineEnds, tl \in Tails}

NetFail == [res |-> "fail", http |-> -1, body |-> "empty", header |-> <<>>]

NetAnswers(codes, bodies, headers) ==
    [res : {"ok"}, http : codes, body : bodies, header : headers]

\* The body of a playback response as the poll cycle reads it.  context is
\* "absent" (no object), "nohref" (an object without a string `href` and
\* without an object `external_urls`) or "href" (an object with both).
\* release_date is the text of item.album.release_date, empty when there
\* is none.
EmptyObj == [currently_playing_type |-> "absent", device |-> "absent",
             is_playing |-> "absent", progress_ms |-> -1,
             context |-> "absent", item |-> "absent", release_date |-> <<>>]

\* Every shape of a payload about the track s1, and a second track s2.
PlaybackObjs ==
    [currently_playing_type : {"track", "ad"},
     device : {"absent", "public", "private"},
     is_playing : {"absent", "true", "false"},
     progress_ms : {-1} \cup (1..MaxProgress),
     context : {"absent", "nohref", "href"},
     item : {"s1"}, release_date : {<<>>}]
    \cup
    [currently_playing_type : {"track"}, device : {"public"},
     is_playing : {"true"}, progress_ms : 1..MaxProgress,
     context : {"absent"}, item : {"s2"}, release_date : {<<>>}]

\* QJsonValue::toInt(): 0 for a value that is not a number.
toInt(v) == IF v = -1 THEN 0 ELSE v

\* song: clear() unsets every field, set() sets one.
Cleared == [x \in {} |-> 0]

set(song, key, value) ==
    [x \in (DOMAIN song) \cup {key} |-> IF x = key THEN value ELSE song[x]]

state_playing == "playing"
state_paused == "paused"
state_stopped == "stopped"

\* enum play_state is declared outside this file: its enumerators have
\* distinct integers, here any three of 0..2.
PlayStates ==
    {f \in [{state_playing, state_paused, state_stopped} -> 0..2] :
        \A a, b \in DOMAIN f : a # b => f[a] # f[b]}

\* The enumerators in the order playing, paused, stopped.
PlayStateInOrder ==
    [x \in {state_playing, state_paused, state_stopped} |->
        IF x = state_playing THEN 0 ELSE IF x = state_paused THEN 1 ELSE 2]

NoThread == [pc |-> "none", c |-> "none", token |-> "", playing |-> 0,
             m |-> 0, status |-> "unset"]

NoEvent == [op |-> "init", result |-> FALSE, reqs |-> {}, doc |-> NullDoc,
            code |-> -2, cls |-> "none", formed |-> FALSE, parsed |-> FALSE,
            skip |-> "none", had |-> FALSE, armed |-> FALSE,
            events |-> <<>>, saves |-> 0, calls |-> <<>>, cap |-> "none",
            th |-> NoThread, logged |-> NullDoc, log |-> NullDoc,
            header |-> <<>>, context |-> "none", date |-> <<>>,
            raised |-> FALSE, thrown |-> FALSE]

----------------------------------------------------------------------------
(* Token endpoint *)

\* request_token: returns without a request when the credentials are empty
\* (the request text is never empty); otherwise POSTs and decodes the body.
\* logged is the JSON it writes to the log (lines 398-406): the response
\* object with its string token fields replaced; a text is modelled by the
\* document it prints, NullDoc for no text.
redact(doc) ==
    [doc EXCEPT !.access_token = IF @ = "absent" THEN @ ELSE "REDACTED",
                !.refresh_token = IF @ = "absent" THEN @ ELSE "REDACTED"]

request_token(credentials, net) ==
    IF credentials = ""
    THEN [sent |-> FALSE, response |-> NullDoc, logged |-> NullDoc]
    ELSE [sent |-> TRUE, response |-> net,
          logged |-> IF net.kind = "null" THEN NullDoc
                     ELSE redact(DocObject(net))]

\* save(): hands the token state, in full, to the configuration; the result
\* is what the configuration then holds.
save(tok) == tok

\* do_refresh_token on the token state tok = [logged_in, token, refresh,
\* termination]; net is what the token endpoint answers if asked.  saved
\* lists the token states handed to save(), in order.
do_refresh_token_saves_on_success(tok, credentials, net, t) ==
    LET rt == request_token(credentials, net)
        response == rt.response
        obj == DocObject(response)
        ok == response.kind # "null" /\ obj.access_token # "absent"
                                    /\ obj.expires_in # -1
        adopt == response.kind # "null" /\ obj.refresh_token \notin {"absent", ""}
        tok1 == [logged_in |-> ok,
                 token |-> IF ok THEN obj.access_token ELSE tok.token,
                 termination |-> IF ok THEN t + obj.expires_in
                                 ELSE tok.termination,
                 refresh |-> IF adopt THEN obj.refresh_token ELSE tok.refresh]
    IN  [sent |-> rt.sent, result |-> ok, tok |-> tok1,
         logged |-> rt.logged,
         log |-> IF response.kind # "null" THEN response ELSE NullDoc,
         saved |-> IF ok THEN <<save(tok1)>> ELSE <<>>]

do_refresh_token(tok, credentials, net, t) ==
    LET rt == request_token(credentials, net)
        response == rt.response
        obj == DocObject(response)
        ok == response.kind # "null" /\ obj.access_token # "absent"
                                    /\ obj.expires_in # -1
        adopt == response.kind # "null" /\ obj.refresh_token \notin {"absent", ""}
        tok1 == [logged_in |-> ok,
                 token |-> IF ok THEN obj.access_token ELSE tok.token,
                 termination |-> IF ok THEN t + obj.expires_in
                                 ELSE tok.termination,
                 refresh |-> IF adopt THEN obj.refresh_token ELSE tok.refresh]
    IN  [sent |-> rt.sent, result |-> ok, tok |-> tok1,
         logged |-> rt.logged,
         log |-> IF response.kind # "null" THEN response ELSE NullDoc,
         saved |-> <<save(tok1)>>]

\* new_token: the authorization-code exchange.
new_token_without_refresh(tok, credentials, net, t) ==
    LET rt == request_token(credentials, net)
        response == rt.response
        ok == response.kind = "object" /\ response.access_token # "absent"
                 /\ response.expires_in # -1
        tok1 == [logged_in |-> ok,
                 token |-> IF ok THEN response.access_token ELSE tok.token,
                 refresh |-> IF ok /\ response.refresh_token # "absent"
                             THEN response.refresh_token ELSE tok.refresh,
                 termination |-> IF ok THEN t + response.expires_in
                                 ELSE tok.termination]
    IN  [sent |-> rt.sent, result |-> ok, tok |-> tok1,
         logged |-> rt.logged,
         log |-> IF response.kind = "object" THEN response ELSE NullDoc,
         saved |-> <<save(tok1)>>]

new_token(tok, credentials, net, t) ==
    LET rt == request_token(credentials, net)
        response == rt.response
        ok == response.kind = "object" /\ response.access_token # "absent"
                 /\ response.refresh_token # "absent"
                 /\ response.expires_in # -1
        tok1 == [logged_in |-> ok,
                 token |-> IF ok THEN response.access_token ELSE tok.token,
                 refresh |-> IF ok THEN response.refresh_token ELSE tok.refresh,
                 termination |-> IF ok THEN t + response.expires_in
                                 ELSE tok.termination]
    IN  [sent |-> rt.sent, result |-> ok, tok |-> tok1,
         logged |-> rt.logged,
         log |-> IF response.kind = "object" THEN response ELSE NullDoc,
         saved |-> <<save(tok1)>>]

Tok == [logged_in |-> m_logged_in, token |-> m_token,
        refresh |-> m_refresh_token, termination |-> m_token_termination]

SetTok(tok) ==
    /\ m_logged_in' = tok.logged_in
    /\ m_token' = tok.token
    /\ m_refresh_token' = tok.refresh
    /\ m_token_termination' = tok.termination

----------------------------------------------------------------------------
(* HTTP transport and its backoff *)

Statics == [timeout_start |-> timeout_start, timeout |-> timeout,
            timeout_multiplier |-> timeout_multiplier]

\* execute_command, first half: the cooldown check before the request.
\* waiting: the call returns 0 without a request.
command_gate_open(st, t) ==
    [waiting |-> FALSE, st |-> [st EXCEPT !.timeout = 0]]

command_gate(st, t) ==
    IF st.timeout > 0
    THEN IF t - st.timeout_start >= st.timeout
         THEN [waiting |-> FALSE, st |-> [st EXCEPT !.timeout = 0]]
         ELSE [waiting |-> TRUE, st |-> st]
    ELSE [waiting |-> FALSE, st |-> st]

\* execute_command, second half: what the result of curl_easy_perform does
\* to the statics.
command_result_success_only(st, t, net) ==
    IF net.res = "ok"
    THEN IF net.body = "garbage" \/ net.http >= 400
         THEN st
         ELSE [timeout_start |-> 0, timeout |-> 0, timeout_multiplier |-> 1]
    ELSE [timeout_start |-> t,
          timeout |-> BackoffStep * st.timeout_multiplier,
          timeout_multiplier |-> st.timeout_multiplier + 1]

command_result(st, t, net) ==
    IF net.res = "ok"
    THEN IF net.body = "garbage"
         THEN st
         ELSE [timeout_start |-> 0, timeout |-> 0, timeout_multiplier |-> 1]
    ELSE [timeout_start |-> t,
          timeout |-> BackoffStep * st.timeout_multiplier,
          timeout_multiplier |-> st.timeout_multiplier + 1]

\* How a request ended, for the history: a transport failure, a response
\* that resets the backoff, or a response whose body does not parse.
transport_event(net) ==
    IF net.res # "ok" THEN "fail"
    ELSE IF net.body = "garbage" THEN "garbage" ELSE "reset"

\* execute_command run without interruption.
execute_command(st, t, net) ==
    LET g == command_gate(st, t) IN
    IF g.waiting
    THEN [code |-> 0, sent |-> FALSE, json |-> FALSE, header |-> <<>>,
          st |-> g.st, events |-> <<>>]
    ELSE [code |-> net.http, sent |-> TRUE,
          json |-> net.res = "ok" /\ net.body = "json",
          header |-> net.header,
          st |-> command_result(g.st, t, net),
          events |-> <<transport_event(net)>>]

----------------------------------------------------------------------------
(* Retry-After *)

\* std::string::find from a position: the first index, 0 for npos.
Find(s, c, from) ==
    IF \E i \in from..Len(s) : s[i] = c
    THEN CHOOSE i \in from..Len(s) :
             s[i] = c /\ \A j \in from..(i - 1) : s[j] # c
    ELSE 0

DigitValue(c) == CHOOSE n \in 0..9 : Digits[n + 1] = c

IsDigit(c) == \E n \in 0..9 : Digits[n + 1] = c

\* The digits a text begins with.
RECURSIVE DigitPrefix(_)
DigitPrefix(s) ==
    IF s = <<>> \/ ~IsDigit(Head(s)) THEN <<>>
    ELSE <<Head(s)>> \o DigitPrefix(Tail(s))

RECURSIVE ToNumber(_)
ToNumber(s) ==
    IF Len(s) = 0 THEN 0
    ELSE 10 * ToNumber(SubSeq(s, 1, Len(s) - 1)) + DigitValue(s[Len(s)])

\* std::stoi: the number the leading digits of the text spell, whatever
\* follows them; std::invalid_argument for a text that begins with no digit.
stoi(s) ==
    IF DigitPrefix(s) = <<>> THEN [value |-> 0, throws |-> TRUE]
    ELSE [value |-> ToNumber(DigitPrefix(s)), throws |-> FALSE]

\* extract_timeout: timeout is what the call leaves in m_timeout_length
\* (line 116 writes 0 first); throws: std::out_of_range from header.at(end)
\* when no '\n' follows the text "Retry-After: ", or the exception of stoi.
extract_timeout_short(header) ==
    LET pos == Find(header, "R", 1)
        end == Find(header, "\n", pos + 1)
        n == stoi(SubSeq(header, pos + 1, end - 2))
    IN  IF pos = 0 THEN [timeout |-> 0, throws |-> FALSE]
        ELSE IF end = 0 THEN [timeout |-> 0, throws |-> TRUE]
        ELSE [timeout |-> n.value, throws |-> n.throws]

extract_timeout(header) ==
    LET pos == Find(header, "R", 1)
        end == Find(header, "\n", pos + 1)
        n == stoi(SubSeq(header, pos + 1, end - 1))
    IN  IF pos = 0 THEN [timeout |-> 0, throws |-> FALSE]
        ELSE IF end = 0 THEN [timeout |-> 0, throws |-> TRUE]
        ELSE [timeout |-> n.value, throws |-> n.throws]

----------------------------------------------------------------------------
(* Poll cycle *)

\* music_source::begin_refresh leaves the record as it is.
begin_refresh(song) == song

\* parse_track_json: rebuilds the record from the payload; net2 is what the
\* network does to the playlist lookup.
\* parse_track_json, line 232: `context` has a string `href`.
wants_lookup_always(obj) == TRUE

wants_lookup(obj) == obj.context = "href"

\* parse_track_json, lines 219-227: the fields set from an object `context`.
context_fields(song, obj) ==
    IF obj.context = "absent" THEN song
    ELSE LET s1 == set(song, "context", "playlist")
             s2 == set(s1, "context_url", "uri")
         IN  IF obj.context = "nohref" THEN s2
             ELSE set(s2, "context_external_url", "spotify")

\* QString::split("-"): the parts between the separators, empty ones kept.
RECURSIVE split(_)
split(s) ==
    LET i == Find(s, "-", 1) IN
    IF i = 0 THEN <<s>>
    ELSE <<SubSeq(s, 1, i - 1)>> \o split(SubSeq(s, i + 1, Len(s)))

\* QString::toInt(): the number the whole text spells, 0 for a text that is
\* not a number.
QtoInt(s) ==
    IF s # <<>> /\ \A i \in 1..Len(s) : IsDigit(s[i]) THEN ToNumber(s) ELSE 0

\* parse_track_json, lines 272-286: the release date.
release_date_without_fallthrough(song, date) ==
    IF Len(date) > 0
    THEN LET list == split(date) IN
         IF Len(list) = 3 THEN set(song, "release_day", QtoInt(list[3]))
         ELSE IF Len(list) = 2 THEN set(song, "release_month", QtoInt(list[2]))
         ELSE IF Len(list) = 1 THEN set(song, "release_year", QtoInt(list[1]))
         ELSE song
    ELSE song

release_date(song, date) ==
    IF Len(date) > 0
    THEN LET list == split(date)
             s3 == IF Len(list) = 3
                   THEN set(song, "release_day", QtoInt(list[3])) ELSE song
             s2 == IF Len(list) \in {2, 3}
                   THEN set(s3, "release_month", QtoInt(list[2])) ELSE s3
         IN  IF Len(list) \in {1, 2, 3}
             THEN set(s2, "release_year", QtoInt(list[1])) ELSE s2
    ELSE song

parse_track_json(obj, st, t, net2) ==
    LET lookup == wants_lookup(obj)
        ec == execute_command(st, t, net2)
        c0 == Cleared
        c1 == context_fields(c0, obj)
        c2 == IF lookup /\ ec.code = HTTP_OK
              THEN set(c1, "playlist_name", IF ec.json THEN "name" ELSE "")
              ELSE c1
    IN  [song |-> release_date(set(c2, "title", obj.item), obj.release_date),
         st |-> IF lookup THEN ec.st ELSE st,
         sent |-> lookup /\ ec.sent,
         events |-> IF lookup THEN ec.events ELSE <<>>]

\* refresh, lines 171-175: an ad is playing, playback counts as paused.
on_ad_ignores_playing(song, obj) ==
    set(song, "status",
        IF obj.is_playing = "true" THEN state_playing ELSE state_paused)

on_ad(song, obj) == set(song, "status", state_paused)

\* refresh, lines 178-179 and 184: the session is private.
on_private(song, obj) == set(song, "progress", toInt(obj.progress_ms))

\* refresh, lines 185-188: no object `device` or no boolean `is_playing`.
on_malformed_clears(song) == Cleared

on_malformed(song) == song

\* refresh, lines 165-189: the playback request returned HTTP 200.  rebuilt
\* is the record as parse_track_json leaves it, before lines 182 and 184 set
\* status and progress.
on_http_ok(song, obj, st, t, net2) ==
    IF obj.currently_playing_type = "ad"
    THEN [song |-> on_ad(song, obj), rebuilt |-> on_ad(song, obj), st |-> st,
          cls |-> "ad", parsed |-> FALSE, sent |-> FALSE, events |-> <<>>]
    ELSE IF obj.device # "absent" /\ obj.is_playing # "absent"
    THEN IF obj.device = "private"
         THEN [song |-> on_private(song, obj),
               rebuilt |-> on_private(song, obj),
               st |-> st, cls |-> "private", parsed |-> FALSE,
               sent |-> FALSE, events |-> <<>>]
         ELSE LET p == parse_track_json(obj, st, t, net2)
                  s1 == set(p.song, "status",
                            IF obj.is_playing = "true" THEN state_playing
                            ELSE state_stopped)
              IN  [song |-> set(s1, "progress", toInt(obj.progress_ms)),
                   rebuilt |-> p.song,
                   st |-> p.st, cls |-> "track", parsed |-> TRUE,
                   sent |-> p.sent, events |-> p.events]
    ELSE [song |-> on_malformed(song), rebuilt |-> on_malformed(song),
          st |-> st, cls |-> "malformed",
          parsed |-> FALSE, sent |-> FALSE, events |-> <<>>]

\* refresh, lines 190-192: HTTP 204, no session is running.
on_no_content_keeps(song) == song

on_no_content(song) == Cleared

\* refresh, lines 145-154: the rate-limit cooldown check.
rate_gate_late(start, length, t) ==
    IF start # 0
    THEN IF t - start > length
         THEN [waiting |-> FALSE, start |-> 0, length |-> 0]
         ELSE [waiting |-> TRUE, start |-> start, length |-> length]
    ELSE [waiting |-> FALSE, start |-> start, length |-> length]

rate_gate(start, length, t) ==
    IF start # 0
    THEN IF t - start >= length
         THEN [waiting |-> FALSE, start |-> 0, length |-> 0]
         ELSE [waiting |-> TRUE, start |-> start, length |-> length]
    ELSE [waiting |-> FALSE, start |-> start, length |-> length]

\* refresh, lines 198-205: a status other than 200 and 204.
\* thrown: the exception of extract_timeout leaves refresh() at line 199.
on_other_status(code, header, start, length, t) ==
    IF code = STATUS_RETRY_AFTER /\ header # <<>>
    THEN LET et == extract_timeout(header) IN
         IF et.throws THEN [start |-> start, length |-> 0, thrown |-> TRUE]
         ELSE IF et.timeout # 0
         THEN [start |-> t, length |-> et.timeout, thrown |-> FALSE]
         ELSE [start |-> start, length |-> 0, thrown |-> FALSE]
    ELSE [start |-> start, length |-> length, thrown |-> FALSE]

\* refresh, lines 131-143: the logged-in flag is tested once, when the cycle
\* begins; the result of do_refresh_token and the flag it leaves (tok1) do
\* not end the cycle.
gives_up_when_logged_out(tok1) == ~tok1.logged_in

gives_up(tok1) == FALSE

\* spotify_source::refresh for a logged-in client.  doc: the token
\* endpoint's answer, net: the playback request's fate, obj: its body,
\* net2: the playlist lookup's fate.
refresh(tok, credentials, start, length, song, st, t, doc, net, obj, net2) ==
    LET s0 == begin_refresh(song)
        expired == t > tok.termination
        rt == do_refresh_token(tok, credentials, doc, t)
        tok1 == IF expired THEN rt.tok ELSE tok
        treq == IF expired /\ rt.sent THEN {"token"} ELSE {}
        saved == IF expired THEN rt.saved \o <<save(tok1)>> ELSE <<>>
        tcall == IF expired
                 THEN <<[fn |-> "do_refresh_token", sent |-> rt.sent,
                         token |-> ""]>>
                 ELSE <<>>
        rg == rate_gate(start, length, t)
        ec == execute_command(st, t, net)
        body == IF ec.json THEN obj ELSE EmptyObj
        ok == on_http_ok(s0, body, ec.st, t, net2)
        other == on_other_status(ec.code, ec.header, rg.start, rg.length, t)
        preq == IF ec.sent THEN {"player"} ELSE {}
        pcall == IF ec.sent
                 THEN <<[fn |-> "player", sent |-> TRUE,
                         token |-> tok1.token]>>
                 ELSE <<>>
        lcall == IF ok.sent
                 THEN <<[fn |-> "playlist", sent |-> TRUE,
                         token |-> tok1.token]>>
                 ELSE <<>>
    IN  IF gives_up(tok1)
        THEN [tok |-> tok1, start |-> start, length |-> length,
              song |-> s0, rebuilt |-> s0, st |-> st, reqs |-> treq,
              code |-> -2,
              cls |-> "none", parsed |-> FALSE, skip |-> "logged_out",
              events |-> <<>>, saved |-> saved, calls |-> tcall,
              thrown |-> FALSE]
        ELSE IF rg.waiting
        THEN [tok |-> tok1, start |-> rg.start, length |-> rg.length,
              song |-> s0, rebuilt |-> s0, st |-> st, reqs |-> treq,
              code |-> -2,
              cls |-> "none", parsed |-> FALSE, skip |-> "ratelimit",
              events |-> <<>>, saved |-> saved, calls |-> tcall,
              thrown |-> FALSE]
        ELSE IF ec.code = HTTP_OK
        THEN [tok |-> tok1, start |-> rg.start, length |-> rg.length,
              song |-> ok.song, rebuilt |-> ok.rebuilt, st |-> ok.st,
              reqs |-> treq \cup preq
                       \cup (IF ok.sent THEN {"playlist"} ELSE {}),
              code |-> ec.code, cls |-> ok.cls, parsed |-> ok.parsed,
              skip |-> "none", events |-> ec.events \o ok.events,
              saved |-> saved, calls |-> tcall \o pcall \o lcall,
              thrown |-> FALSE]
        ELSE IF ec.code = HTTP_NO_CONTENT
        THEN [tok |-> tok1, start |-> rg.start, length |-> rg.length,
              song |-> on_no_content(s0), rebuilt |-> on_no_content(s0),
              st |-> ec.st,
              reqs |-> treq \cup preq,
              code |-> ec.code, cls |-> "none", parsed |-> FALSE,
              skip |-> "none", events |-> ec.events,
              saved |-> saved, calls |-> tcall \o pcall,
              thrown |-> FALSE]
        ELSE [tok |-> tok1, start |-> other.start, length |-> other.length,
              song |-> s0, rebuilt |-> s0, st |-> ec.st,
              reqs |-> treq \cup preq,
              code |-> ec.code, cls |-> "none", parsed |-> FALSE,
              skip |-> "none", events |-> ec.events,
              saved |-> saved, calls |-> tcall \o pcall,
              thrown |-> other.thrown]

----------------------------------------------------------------------------
(* Operations *)

\* What the network can do to a playback request and to a playlist lookup.
PlayerNets ==
    {NetFail}
    \cup NetAnswers({HTTP_OK}, {"json", "empty", "garbage"}, {PlainHeader})
    \cup NetAnswers({HTTP_NO_CONTENT}, {"empty"}, {PlainHeader})
    \cup NetAnswers({401}, {"json", "garbage"}, {PlainHeader})
    \cup NetAnswers({STATUS_RETRY_AFTER}, {"json"}, Headers)

PlaylistNets ==
    {NetFail} \cup NetAnswers({HTTP_OK, 404}, {"json"}, {PlainHeader})

\* The token-endpoint answers tried inside a poll cycle.
PollDocs ==
    {NullDoc} \cup
    [kind : {"object"}, access_token : {"a2"}, refresh_token : {"absent"},
     expires_in : {MaxExpires}, error : {FALSE}]

\* A command thread: the values the lambda of execute_capability captured,
\* its position in execute_command and the multiplier it has read; status is
\* history, the status that playing was read from.
Thread(c, token, playing, status) ==
    [pc |-> "start", c |-> c, token |-> token, playing |-> playing, m |-> 0,
     status |-> status]

\* threads with one thread ended, and with one thread moved on.
Ended(th) == threads (-) SetToBag({th})

Moved(th, to) == (threads (-) SetToBag({th})) (+) SetToBag({to})

\* song::get of a field, "unset" for a field that is not set.
get(song, key) == IF key \in DOMAIN song THEN song[key] ELSE "unset"

\* song::get<int> of the status: the enumerator's integer, 0 when unset.
get_int(song, key, enum) ==
    IF key \in DOMAIN song THEN enum[song[key]] ELSE 0

\* The history of transport failures after the events of one step.
RECURSIVE Count(_, _)
Count(n, events) ==
    IF events = <<>> THEN n
    ELSE Count(IF Head(events) = "fail" THEN n + 1
               ELSE IF Head(events) = "reset" THEN 0 ELSE n,
               Tail(events))

\* The polling thread outside refresh(); inside, song is the record the
\* cycle is going to leave.
Idle == [pc |-> "idle", song |-> Cleared]

\* The configuration after the save() calls of one operation.
Saved(saved) == IF saved = <<>> THEN config ELSE saved[Len(saved)]

\* The state after construction and load(): the token state comes from the
\* configuration, everything else is empty.
InitRest ==
    /\ now = 1
    /\ m_timout_start = 0
    /\ m_timeout_length = 0
    /\ m_current = Cleared
    /\ timeout_start = 0
    /\ timeout = 0
    /\ timeout_multiplier = 1
    /\ threads = EmptyBag
    /\ config = Tok
    /\ thread_mutex = "free"
    /\ thread_flag = TRUE
    /\ poller = Idle
    /\ loader = "idle"
    /\ auth_failed = FALSE
    /\ fails = 0
    /\ last = NoEvent

Tick(limit) ==
    /\ now < limit
    /\ now' = now + 1
    /\ last' = [NoEvent EXCEPT !.op = "tick"]
    /\ UNCHANGED <<tokvars, fixed, config, auth_failed, lockvars, ratevars,
                    m_current, statics, threads, fails>>

DoRefreshToken(Docs) ==
    \E net \in Docs :
    \E r \in {do_refresh_token(Tok, m_creds, net, now)} :
        /\ SetTok(r.tok)
        /\ config' = Saved(r.saved)
        /\ auth_failed' = FALSE
        /\ last' = [NoEvent EXCEPT !.op = "do_refresh_token",
                                   !.result = r.result,
                                   !.reqs = IF r.sent THEN {"token"} ELSE {},
                                   !.doc = IF r.sent THEN net ELSE NullDoc,
                                   !.saves = Len(r.saved),
                                   !.logged = r.logged, !.log = r.log]
        /\ UNCHANGED <<now, fixed, lockvars, ratevars, m_current, statics,
                       threads, fails>>

NewToken(Docs) ==
    \E net \in Docs :
    \E r \in {new_token(Tok, m_creds, net, now)} :
        /\ SetTok(r.tok)
        /\ config' = Saved(r.saved)
        /\ auth_failed' = FALSE
        /\ last' = [NoEvent EXCEPT !.op = "new_token",
                                   !.result = r.result,
                                   !.reqs = IF r.sent THEN {"token"} ELSE {},
                                   !.doc = IF r.sent THEN net ELSE NullDoc,
                                   !.saves = Len(r.saved),
                                   !.logged = r.logged, !.log = r.log]
        /\ UNCHANGED <<now, fixed, lockvars, ratevars, m_current, statics,
                       threads, fails>>

\* refresh, line 131: the test that ends the call at once.
not_logged_in_ignored(flag) == FALSE

not_logged_in(flag) == ~flag

\* One call of spotify_source::refresh by the polling thread: as a whole,
\* or up to the return of parse_track_json, with the writes of status and
\* progress (lines 182 and 184) still to come.
RefreshCycle(Docs, Nets, Objs, Nets2, whole) ==
    IF not_logged_in(m_logged_in)
    THEN /\ last' = [NoEvent EXCEPT !.op = "refresh", !.skip = "logged_out",
                                    !.had = m_current # Cleared,
                                    !.armed = m_timout_start # 0]
         /\ poller' = IF whole THEN poller
                      ELSE [pc |-> "finishing", song |-> m_current]
         /\ UNCHANGED <<now, tokvars, fixed, config, auth_failed,
                        ratevars, m_current, statics, threads, fails>>
    ELSE
    \E calls \in {~rate_gate(m_timout_start, m_timeout_length, now).waiting
                  /\ ~command_gate(Statics, now).waiting} :
    \E doc \in (IF now > m_token_termination THEN Docs ELSE {NullDoc}) :
    \E net \in (IF calls THEN Nets ELSE {NetFail}) :
    \E obj \in (IF net.res = "ok" /\ net.http = HTTP_OK /\ net.body = "json"
                THEN Objs ELSE {EmptyObj}) :
    \E net2 \in (IF wants_lookup(obj) THEN Nets2 ELSE {NetFail}) :
    \E r \in {refresh(Tok, m_creds, m_timout_start, m_timeout_length,
                      m_current, Statics, now, doc, net, obj, net2)} :
        /\ SetTok(r.tok)
        /\ m_timout_start' = r.start
        /\ m_timeout_length' = r.length
        /\ m_current' = IF whole THEN r.song ELSE r.rebuilt
        /\ poller' = IF whole THEN poller
                     ELSE [pc |-> IF r.parsed THEN "rebuilding"
                                  ELSE "finishing",
                           song |-> r.song]
        /\ timeout_start' = r.st.timeout_start
        /\ timeout' = r.st.timeout
        /\ timeout_multiplier' = r.st.timeout_multiplier
        /\ last' = [NoEvent EXCEPT !.op = "refresh", !.reqs = r.reqs,
                                   !.doc = doc,
                                   !.code = r.code, !.cls = r.cls,
                                   !.formed = obj.device # "absent"
                                              /\ obj.is_playing # "absent",
                                   !.parsed = r.parsed, !.skip = r.skip,
                                   !.had = m_current # Cleared,
                                   !.armed = m_timout_start # 0,
                                   !.raised = timeout_multiplier > 1,
                                   !.events = r.events,
                                   !.saves = Len(r.saved),
                                   !.calls = r.calls,
                                   !.header = IF r.code = STATUS_RETRY_AFTER
                                              THEN net.header ELSE <<>>,
                                   !.context = IF r.code = HTTP_OK
                                               THEN obj.context ELSE "none",
                                   !.date = obj.release_date,
                                   !.thrown = r.thrown]
        /\ config' = Saved(r.saved)
        /\ auth_failed' = IF r.code = 401 THEN TRUE
                          ELSE IF r.skip = "none" /\ r.code # 0 THEN FALSE
                          ELSE auth_failed
        /\ fails' = Count(fails, r.events)
        /\ UNCHANGED <<now, fixed, threads>>

Refresh(Docs, Nets, Objs, Nets2) ==
    /\ RefreshCycle(Docs, Nets, Objs, Nets2, TRUE)
    /\ UNCHANGED <<thread_mutex, thread_flag, loader>>

\* The capabilities whose case in the thread's switch calls execute_command.
Calling == {"CAP_PLAY_PAUSE", "CAP_STOP_SONG", "CAP_PREV_SONG",
            "CAP_NEXT_SONG"}

\* The values of enum capability, and the set the constructor declares.
Capabilities == Calling \cup {"CAP_VOLUME_UP", "CAP_VOLUME_DOWN",
                              "CAP_VOLUME_MUTE"}

m_capabilities == {"CAP_NEXT_SONG", "CAP_PREV_SONG", "CAP_PLAY_PAUSE",
                   "CAP_VOLUME_MUTE"}

\* `if (playing)` on the captured int, line 303.
is_playing(playing) == playing # 0

NoRequest == [url |-> "none", method |-> "none", data |-> "none"]

\* The switch of the detached thread, lines 301-323: the request it hands to
\* execute_command.
command_url(c, playing) ==
    IF c = "CAP_STOP_SONG" \/ (c = "CAP_PLAY_PAUSE" /\ is_playing(playing))
    THEN [url |-> "pause", method |-> "PUT", data |-> "none"]
    ELSE IF c = "CAP_PLAY_PAUSE"
    THEN [url |-> "play", method |-> "PUT", data |-> "position_ms:0"]
    ELSE IF c = "CAP_PREV_SONG"
    THEN [url |-> "previous", method |-> "POST", data |-> "none"]
    ELSE IF c = "CAP_NEXT_SONG"
    THEN [url |-> "next", method |-> "POST", data |-> "none"]
    ELSE NoRequest

\* The request of a command thread: built from what the lambda captured by
\* value (lines 296, 305-314).
command_request(th) ==
    [fn |-> command_url(th.c, th.playing), token |-> th.token, sent |-> TRUE]

SetStatics(st) ==
    /\ timeout_start' = st.timeout_start
    /\ timeout' = st.timeout
    /\ timeout_multiplier' = st.timeout_multiplier

\* execute_capability: captures token and status, detaches a thread and
\* returns true.
ExecuteCapabilityWaits(Caps) ==
    \E c \in Caps :
    \E net \in {NetFail} :
        /\ BagCardinality(threads) < MaxThreads
        /\ SetStatics(command_result(Statics, now, net))
        /\ fails' = Count(fails, <<transport_event(net)>>)
        /\ last' = [NoEvent EXCEPT !.op = "execute_capability",
                                   !.result = net.http = HTTP_NO_CONTENT,
                                   !.reqs = {"command"},
                                   !.events = <<transport_event(net)>>]
        /\ UNCHANGED <<now, tokvars, fixed, config, auth_failed, lockvars,
                       ratevars, m_current, threads>>

ExecuteCapability(Caps) ==
    \E c \in Caps :
        /\ BagCardinality(threads) < MaxThreads
        /\ threads' = threads (+) SetToBag({Thread(
                                     c, m_token,
                                     get_int(m_current, "status", play_state),
                                     get(m_current, "status"))})
        /\ last' = [NoEvent EXCEPT !.op = "execute_capability",
                                   !.result = TRUE, !.cap = c]
        /\ UNCHANGED <<now, tokvars, fixed, config, auth_failed, lockvars,
                       ratevars, m_current, statics,
                       fails>>

\* A command thread reaches its call of execute_command and passes or fails
\* the cooldown check (lines 516-523); a capability without a request ends.
CmdGate ==
    \E th \in BagToSet(threads) :
        /\ th.pc = "start"
        /\ \E g \in {command_gate(Statics, now)} :
              IF th.c \in Calling /\ ~g.waiting
              THEN /\ SetStatics(g.st)
                   /\ threads' = Moved(th, [th EXCEPT !.pc = "perform"])
              ELSE /\ threads' = Ended(th)
                   /\ UNCHANGED statics
        /\ last' = [NoEvent EXCEPT
                      !.op = "command_gate", !.cap = th.c,
                      !.skip = IF th.c \notin Calling THEN "no_request"
                               ELSE IF command_gate(Statics, now).waiting
                               THEN "backoff" ELSE "none"]
        /\ UNCHANGED <<now, tokvars, fixed, config, auth_failed, lockvars,
                       ratevars, m_current, fails>>

\* curl_easy_perform of a command thread returns (lines 556-572): a response
\* is handled at once; after a transport failure the thread has read the
\* multiplier and not yet written the statics.
CmdPerform(Nets) ==
    \E th \in BagToSet(threads) :
        /\ th.pc = "perform"
        /\ \E net \in Nets :
              /\ IF net.res = "ok"
                 THEN /\ SetStatics(command_result(Statics, now, net))
                      /\ threads' = Ended(th)
                      /\ fails' = Count(fails, <<transport_event(net)>>)
                 ELSE /\ timeout_multiplier < MaxMultiplier
                      /\ threads' = Moved(th, [th EXCEPT
                                                 !.pc = "arm",
                                                 !.m = timeout_multiplier])
                      /\ UNCHANGED <<statics, fails>>
              /\ last' = [NoEvent EXCEPT
                            !.op = "command_perform", !.reqs = {"command"},
                            !.code = net.http, !.cap = th.c,
                            !.th = th,
                            !.raised = timeout_multiplier > 1,
                            !.calls = <<command_request(th)>>,
                            !.events = IF net.res = "ok"
                                       THEN <<transport_event(net)>>
                                       ELSE <<>>]
        /\ UNCHANGED <<now, tokvars, fixed, config, auth_failed, lockvars,
                       ratevars, m_current>>

\* The thread writes the statics after its transport failure (lines
\* 571-572), from the multiplier it read.
CmdArm ==
    \E th \in BagToSet(threads) :
        /\ th.pc = "arm"
        /\ SetStatics(command_result(
                         [Statics EXCEPT !.timeout_multiplier = th.m],
                         now, NetFail))
        /\ threads' = Ended(th)
        /\ fails' = Count(fails, <<"fail">>)
        /\ last' = [NoEvent EXCEPT !.op = "command_arm", !.code = -1,
                                   !.events = <<"fail">>]
        /\ UNCHANGED <<now, tokvars, fixed, config, auth_failed, lockvars,
                       ratevars, m_current>>

\* std::mutex lock() and unlock() on tuna_thread::thread_mutex.
lock(who) == thread_mutex = "free" /\ thread_mutex' = who

unlock(who) == thread_mutex = who /\ thread_mutex' = "free"

\* The polling thread (tuna_thread) holds thread_mutex around refresh().
PollerLock == lock("poll")

PollerUnlock == unlock("poll")

\* The polling thread calls refresh(): the cycle up to the return of
\* parse_track_json.
PollStart(Docs, Nets, Objs, Nets2) ==
    /\ thread_flag
    /\ poller = Idle
    /\ PollerLock
    /\ RefreshCycle(Docs, Nets, Objs, Nets2, FALSE)
    /\ UNCHANGED <<thread_flag, loader>>

\* refresh, lines 182 and 184, and its return.
PollEnd ==
    /\ poller # Idle
    /\ PollerUnlock
    /\ m_current' = poller.song
    /\ poller' = Idle
    /\ last' = [NoEvent EXCEPT !.op = "refresh_end"]
    /\ UNCHANGED <<now, tokvars, fixed, config, auth_failed, thread_flag,
                   loader, ratevars, statics, threads, fails>>

\* spotify_source::load: the token state is read from the configuration and
\* an expired token is refreshed at once.
load(cfg, credentials, net, t) ==
    LET expired == cfg.logged_in /\ t > cfg.termination
        rt == do_refresh_token(cfg, credentials, net, t)
    IN  [tok |-> IF expired THEN rt.tok ELSE cfg,
         sent |-> expired /\ rt.sent,
         result |-> expired /\ rt.result,
         saved |-> IF expired THEN rt.saved \o <<save(rt.tok)>> ELSE <<>>]

\* config::load, line 99.
LoadLock ==
    /\ loader = "idle"
    /\ lock("load")
    /\ loader' = "locked"
    /\ last' = [NoEvent EXCEPT !.op = "load_lock"]
    /\ UNCHANGED <<now, tokvars, fixed, config, auth_failed, thread_flag,
                   poller, ratevars, m_current, statics, threads, fails>>

\* config::load, lines 100-114: music_sources::load reaches
\* spotify_source::load.
LoadSources(Docs) ==
    /\ loader = "locked"
    /\ \E net \in (IF config.logged_in /\ now > config.termination
                    THEN Docs ELSE {NullDoc}) :
       \E r \in {load(config, m_creds, net, now)} :
          /\ SetTok(r.tok)
          /\ config' = Saved(r.saved)
          /\ last' = [NoEvent EXCEPT !.op = "load_sources",
                                     !.result = r.result,
                                     !.reqs = IF r.sent THEN {"token"} ELSE {},
                                     !.doc = IF r.sent THEN net ELSE NullDoc,
                                     !.saves = Len(r.saved)]
    /\ loader' = "loaded"
    /\ auth_failed' = FALSE
    /\ UNCHANGED <<now, fixed, thread_mutex, thread_flag, poller, ratevars,
                   m_current, statics, threads, fails>>

\* config::load, line 115.
LoadUnlock ==
    /\ loader = "loaded"
    /\ unlock("load")
    /\ loader' = "unlocked"
    /\ last' = [NoEvent EXCEPT !.op = "load_unlock"]
    /\ UNCHANGED <<now, tokvars, fixed, config, auth_failed, thread_flag,
                   poller, ratevars, m_current, statics, threads, fails>>

\* config::load, lines 117-121: the polling thread is started or stopped;
\* stopping waits for the cycle it is in.
LoadThread ==
    /\ loader = "unlocked"
    /\ \E run \in BOOLEAN :
          /\ run \/ poller = Idle
          /\ thread_flag' = run
          /\ last' = [NoEvent EXCEPT !.op = "load_thread", !.result = run]
    /\ loader' = "idle"
    /\ UNCHANGED <<now, tokvars, fixed, config, auth_failed, thread_mutex,
                   poller, ratevars, m_current, statics, threads, fails>>

----------------------------------------------------------------------------
(* The token operations on their own *)

InitToken ==
    /\ m_logged_in \in BOOLEAN
    /\ m_token = "a1"
    /\ m_refresh_token \in {"", "r1"}
    /\ m_token_termination \in {0, 2}
    /\ m_creds \in {"", "creds"}
    /\ play_state = PlayStateInOrder
    /\ InitRest

NextToken ==
    \/ Tick(MaxTime)
    \/ DoRefreshToken(TokenDocs)
    \/ NewToken(TokenDocs)

SpecToken == InitToken /\ [][NextToken]_vars

----------------------------------------------------------------------------
(* The poll cycle and the playback record *)

Init ==
    /\ m_logged_in = TRUE
    /\ m_token = "a1"
    /\ m_refresh_token = "r1"
    /\ m_token_termination \in {0, MaxTime}
    /\ m_creds = "creds"
    /\ play_state = PlayStateInOrder
    /\ InitRest

Next ==
    \/ Tick(MaxTime)
    \/ NewToken(PollDocs)
    \/ Refresh(PollDocs, PlayerNets, PlaybackObjs, PlaylistNets)

Spec == Init /\ [][Next]_vars

----------------------------------------------------------------------------
(* The cooldowns: poll cycle, command threads and a longer clock *)

\* The playback request fails, is refused with or without a JSON body, or
\* is rate limited; no answer of this specification carries playback data.
BackoffNets ==
    {NetFail}
    \cup NetAnswers({401}, {"json", "garbage"}, {PlainHeader})
    \cup NetAnswers({STATUS_RETRY_AFTER}, {"json"}, Headers)

CommandNets ==
    {NetFail}
    \cup NetAnswers({HTTP_NO_CONTENT}, {"empty"}, {PlainHeader})
    \cup NetAnswers({403}, {"garbage"}, {PlainHeader})

InitBackoff ==
    /\ m_logged_in = TRUE
    /\ m_token = "a1"
    /\ m_refresh_token = "r1"
    /\ m_token_termination \in {2, BackoffMaxTime}
    /\ m_creds = "creds"
    /\ play_state = PlayStateInOrder
    /\ InitRest

NextBackoff ==
    \/ Tick(BackoffMaxTime)
    \/ Refresh(PollDocs, BackoffNets, {EmptyObj}, {NetFail})
    \/ ExecuteCapability({"CAP_NEXT_SONG", "CAP_VOLUME_UP"})
    \/ CmdGate
    \/ CmdPerform(CommandNets)
    \/ CmdArm

SpecBackoff == InitBackoff /\ [][NextBackoff]_vars

----------------------------------------------------------------------------
(* The rate limit: the poll cycle against a server that answers 429 *)

\* Headers whose Retry-After line has no line break, or a value that is no
\* number ("W" stands for an HTTP date).
BadTexts == {<<"x", "\n", "R", "3", "0">>, <<"x", "\n", "R", "W", "\r", "\n">>}

RetryNets ==
    NetAnswers({STATUS_RETRY_AFTER}, {"json"},
               HeaderTexts \cup BadTexts \cup {<<>>})
    \cup NetAnswers({401}, {"json"}, {PlainHeader})

\* An exception has left refresh(): nothing in this file catches it, the
\* polling stops there.
Crashed == last.thrown

InitRetry ==
    /\ m_logged_in = TRUE
    /\ m_token = "a1"
    /\ m_refresh_token = "r1"
    /\ m_token_termination = MaxTime
    /\ m_creds = "creds"
    /\ play_state = PlayStateInOrder
    /\ InitRest

RetryTick == ~Crashed /\ Tick(MaxTime)

RetryPoll ==
    ~Crashed /\ Refresh({NullDoc}, RetryNets, {EmptyObj}, {NetFail})

NextRetry ==
    \/ RetryTick
    \/ RetryPoll

SpecRetry == InitRetry /\ [][NextRetry]_vars

----------------------------------------------------------------------------
(* The release date: the poll cycle against payloads with every date *)

\* A part of a date: empty, a number, or a text that is not a number.
DateParts == {<<>>, <<"1", "2">>, <<"x">>}

PartSeqs == UNION {[1..n -> DateParts] : n \in 1..MaxParts}

\* The parts written with "-" between them.
RECURSIVE Join(_)
Join(parts) ==
    IF Len(parts) = 1 THEN parts[1]
    ELSE parts[1] \o <<"-">> \o Join(Tail(parts))

DateObjs ==
    [currently_playing_type : {"track"}, device : {"public"},
     is_playing : {"true"}, progress_ms : {MaxProgress},
     context : {"absent"}, item : {"s1"},
     release_date : {Join(parts) : parts \in PartSeqs}]

NextDate ==
    Refresh({NullDoc}, NetAnswers({HTTP_OK}, {"json"}, {PlainHeader}),
            DateObjs, {NetFail})

SpecDate == InitRetry /\ [][NextDate]_vars

----------------------------------------------------------------------------
(* Logging in and out: the poll cycle, the code exchange and the reload *)

\* The token endpoint's answers to the authorization-code exchange.
LoginDocs ==
    {NullDoc} \cup
    [kind : {"object"}, access_token : {"a2"}, refresh_token : {"r2"},
     expires_in : {MaxExpires}, error : {FALSE}]

LoginNets == NetAnswers({HTTP_OK, 401}, {"json"}, {PlainHeader})

LoginObjs ==
    [currently_playing_type : {"track"}, device : {"public"},
     is_playing : {"true"}, progress_ms : {MaxProgress},
     context : {"absent"}, item : {"s1", "s2"}, release_date : {<<>>}]

\* The polling thread takes thread_mutex, runs refresh() and releases it.
LoginPoll ==
    /\ thread_flag
    /\ thread_mutex = "free"
    /\ Refresh(PollDocs, LoginNets, LoginObjs, {NetFail})

NextLogin ==
    \/ Tick(MaxTime)
    \/ NewToken(LoginDocs)
    \/ LoginPoll
    \/ LoadLock
    \/ LoadSources(PollDocs)
    \/ LoadUnlock
    \/ LoadThread

SpecLogin == Init /\ [][NextLogin]_vars

----------------------------------------------------------------------------
(* The commands: the poll cycle under its lock, every capability, reload *)

\* The playback request finds a track playing or not, an ad, or no session.
CommandPollNets ==
    NetAnswers({HTTP_OK}, {"json"}, {PlainHeader})
    \cup NetAnswers({HTTP_NO_CONTENT}, {"empty"}, {PlainHeader})

CommandObjs ==
    [currently_playing_type : {"track", "ad"}, device : {"public"},
     is_playing : {"true", "false"}, progress_ms : {MaxProgress},
     context : {"absent"}, item : {"s1"}, release_date : {<<>>}]

\* A command is carried out (204) or refused (403, free account).
CommandAnswers ==
    NetAnswers({HTTP_NO_CONTENT}, {"empty"}, {PlainHeader})
    \cup NetAnswers({403}, {"json"}, {PlainHeader})

\* A call of execute_capability while fewer than MaxCommands threads live.
CommandCall(Caps) ==
    /\ BagCardinality(threads) < MaxCommands
    /\ ExecuteCapability(Caps)

InitCommand ==
    /\ m_logged_in = TRUE
    /\ m_token = "a1"
    /\ m_refresh_token = "r1"
    /\ m_token_termination \in {1, CommandMaxTime}
    /\ m_creds = "creds"
    /\ play_state \in PlayStates
    /\ InitRest

NextCommand ==
    \/ Tick(CommandMaxTime)
    \/ PollStart(PollDocs, CommandPollNets, CommandObjs, {NetFail})
    \/ PollEnd
    \/ CommandCall(Capabilities)
    \/ CmdGate
    \/ CmdPerform(CommandAnswers)
    \/ LoadLock
    \/ LoadSources(PollDocs)
    \/ LoadUnlock
    \/ LoadThread

SpecCommand == InitCommand /\ [][NextCommand]_vars

----------------------------------------------------------------------------
(* The shared cooldown: polls that are answered, commands that can fail *)

\* Every playback request is answered, so that only the failure of a
\* command request arms the transport cooldown.
AnsweredNets == NetAnswers({401}, {"json", "garbage"}, {PlainHeader})

NextShared ==
    \/ Tick(BackoffMaxTime)
    \/ Refresh(PollDocs, AnsweredNets, {EmptyObj}, {NetFail})
    \/ CommandCall({"CAP_NEXT_SONG", "CAP_PLAY_PAUSE"})
    \/ CmdGate
    \/ CmdPerform(CommandNets)
    \/ CmdArm

SpecShared == InitBackoff /\ [][NextShared]_vars

----------------------------------------------------------------------------
(* Properties of the poll cycle *)

Polled == last'.op = "refresh"

\* C1 (as stated): a cycle that is skipped, or whose playback request ends in
\* a status other than 200 and 204 (401, 429, transport failure -1,
\* suppressed request 0), or in a 200 whose body lacks an object `device` or
\* a boolean `is_playing`, leaves the playback record as it was.
C1_AsStated ==
    [][(Polled /\ (\/ last'.skip # "none"
                   \/ last'.code \notin {HTTP_OK, HTTP_NO_CONTENT}
                   \/ last'.code = HTTP_OK /\ ~last'.formed))
       => m_current' = m_current]_vars

\* C1 (amended): the same, the 200 case restricted to a body that is not an
\* ad: an ad sets the status to paused before `device` and `is_playing` are
\* looked at.
C1_RecordFrozen ==
    [][(Polled /\ (\/ last'.skip # "none"
                   \/ last'.code \notin {HTTP_OK, HTTP_NO_CONTENT}
                   \/ last'.code = HTTP_OK /\ last'.cls = "malformed"))
       => m_current' = m_current]_vars

C1_Witness ==
    /\ last.op = "refresh"
    /\ last.code = HTTP_OK
    /\ last.cls = "malformed"
    /\ last.had
    /\ "title" \in DOMAIN m_current

\* C2 (as stated): a 200 whose device is private changes no field of the
\* playback record, progress and status included, and does not run the
\* track parser.
C2_AsStated ==
    [][(Polled /\ last'.cls = "private")
       => (m_current' = m_current /\ ~last'.parsed)]_vars

\* C3: a 204 clears the playback record whatever it held, and no other
\* outcome than a 200 or a 204 turns a record that holds something into
\* the cleared record.
C3_NoContentClears ==
    [][Polled =>
         /\ (last'.code = HTTP_NO_CONTENT => m_current' = Cleared)
         /\ (last'.code \notin {HTTP_OK, HTTP_NO_CONTENT}
               /\ m_current # Cleared => m_current' # Cleared)]_vars

C3_Witness ==
    /\ last.op = "refresh"
    /\ last.code = HTTP_NO_CONTENT
    /\ last.had
    /\ m_current = Cleared

\* C4: a 200 whose currently_playing_type is "ad" sets the status to paused
\* whatever is_playing says and changes no other field of the record; the
\* track parser is not run and no playlist lookup is sent.
C4_AdPauses ==
    [][(Polled /\ last'.cls = "ad")
       => /\ m_current' = set(m_current, "status", state_paused)
          /\ ~last'.parsed
          /\ "playlist" \notin last'.reqs]_vars

C4_Witness ==
    /\ last.op = "refresh"
    /\ last.cls = "ad"
    /\ last.formed
    /\ "title" \in DOMAIN m_current
    /\ m_current["progress"] = 1
    /\ m_current["status"] = state_paused

----------------------------------------------------------------------------
(* Properties of the cooldowns *)

RateLimited == m_timout_start # 0 /\ now - m_timout_start < m_timeout_length

BackingOff == timeout > 0 /\ now - timeout_start < timeout

Events(e) == {e[i] : i \in 1..Len(e)}

\* C5 (as stated): a poll cycle that starts while the rate-limit window or
\* the transport backoff window is active sends no request at all, no
\* playback request, no playlist lookup and no token request.
C5_AsStated ==
    [][(Polled /\ (RateLimited \/ BackingOff)) => last'.reqs = {}]_vars

\* C6 (as stated): the N-th transport failure in a row arms a cooldown of
\* 5*N seconds, execute_command sends no request while that cooldown runs,
\* and a parsed response puts the multiplier back to 1.
C6_AsStated ==
    [][/\ ("fail" \in Events(last'.events)
            => timeout' = BackoffStep * fails')
       /\ (last'.reqs \cap {"player", "playlist", "command"} # {}
            => ~BackingOff)
       /\ ((last'.events # <<>>
             /\ last'.events[Len(last'.events)] = "reset")
            => timeout_multiplier' = 1)]_vars

\* The rate-limit cooldown is cleared, or armed anew by the answer of the
\* request this cycle sent.
ClearedOrRearmed ==
    \/ m_timout_start' = 0 /\ m_timeout_length' = 0
    \/ last'.code = STATUS_RETRY_AFTER /\ m_timout_start' = now

\* C7 (as stated): with the cooldown of a 429 armed, a cycle that starts
\* before its S seconds are over sends no playback request and leaves it
\* armed; a cycle that starts later clears it and sends a playback request.
C7_AsStated ==
    [][(Polled /\ m_timout_start # 0) =>
         IF RateLimited
         THEN "player" \notin last'.reqs /\ UNCHANGED ratevars
         ELSE "player" \in last'.reqs /\ ClearedOrRearmed]_vars

\* C7 (amended): the cycle that starts after the S seconds clears the
\* cooldown if the client is logged in, and its playback request is sent
\* unless the transport backoff is running; logged out, refresh returns at
\* once and the cooldown stays armed.
C7_CooldownEnds ==
    [][(Polled /\ m_timout_start # 0) =>
         IF RateLimited
         THEN "player" \notin last'.reqs /\ UNCHANGED ratevars
         ELSE IF m_logged_in
         THEN /\ ClearedOrRearmed
              /\ ("player" \in last'.reqs <=> ~BackingOff)
         ELSE last'.reqs = {} /\ UNCHANGED ratevars]_vars

C7_Witness ==
    /\ last.op = "refresh"
    /\ last.armed
    /\ last.skip = "none"
    /\ "player" \in last.reqs
    /\ m_timout_start = 0
    /\ m_timeout_length = 0

----------------------------------------------------------------------------
(* Properties of the token operations *)

TokenFields == <<m_token, m_refresh_token, m_token_termination>>

\* C8 (as stated): do_refresh_token called with an empty stored refresh token
\* sends no request to the token endpoint, reports failure and leaves access
\* token, refresh token, expiry and logged-in flag as they were.
C8_AsStated ==
    [][(last'.op = "do_refresh_token" /\ m_refresh_token = "")
       => /\ last'.reqs = {}
          /\ ~last'.result
          /\ tokvars' = tokvars]_vars

\* C9 (as stated): a refresh whose response has a string access token and a
\* numeric expires_in replaces the access token, sets the expiry to
\* now + expires_in and replaces the refresh token only by a non-empty one;
\* every other response leaves access token, refresh token and expiry alone.
C9_AsStated ==
    [][last'.op = "do_refresh_token" =>
         LET d == last'.doc IN
         IF d.access_token # "absent" /\ d.expires_in # -1
         THEN /\ m_token' = d.access_token
              /\ m_token_termination' = now + d.expires_in
              /\ m_refresh_token' =
                     IF d.refresh_token \in {"absent", ""}
                     THEN m_refresh_token ELSE d.refresh_token
         ELSE TokenFields' = TokenFields]_vars

\* C10: new_token succeeds exactly when the response is an object with a
\* string access token, a string refresh token and a numeric expires_in;
\* then the three are stored (expiry = now + expires_in) and logged-in is
\* true; otherwise none of the three changes and logged-in is false.
C10_ExchangeAllOrNothing ==
    [][last'.op = "new_token" =>
         LET d == last'.doc
             ok == /\ d.kind = "object"
                   /\ d.access_token # "absent"
                   /\ d.refresh_token # "absent"
                   /\ d.expires_in # -1
         IN  /\ last'.result = ok
             /\ m_logged_in' = ok
             /\ IF ok
                THEN /\ m_token' = d.access_token
                     /\ m_refresh_token' = d.refresh_token
                     /\ m_token_termination' = now + d.expires_in
                ELSE TokenFields' = TokenFields]_vars

C10_Witness ==
    /\ last.op = "new_token"
    /\ last.result
    /\ m_logged_in
    /\ m_token = "a2"
    /\ m_refresh_token = "r2"
    /\ m_token_termination = now + last.doc.expires_in

\* C11: every call of do_refresh_token and of new_token, whatever its path
\* (success, API error, null response, transport failure, empty
\* credentials), sets the logged-in flag to the result it returns and then
\* calls save() once, so that the flag persisted is the result.
C11_AlwaysPersists ==
    [][last'.op \in {"do_refresh_token", "new_token"} =>
         /\ m_logged_in' = last'.result
         /\ last'.saves = 1
         /\ config' = save(Tok')
         /\ config'.logged_in = last'.result]_vars

C11_Witness ==
    /\ last.op = "do_refresh_token"
    /\ last.reqs = {}
    /\ ~last.result
    /\ last.saves = 1
    /\ ~m_logged_in
    /\ ~config.logged_in

----------------------------------------------------------------------------
(* Properties of the poll cycle's token handling *)

Called(fn) == {i \in 1..Len(last'.calls) : last'.calls[i].fn = fn}

\* C12: a poll cycle that starts logged in, with an expired token and no
\* cooldown running, calls do_refresh_token before the playback request; if
\* the refresh fails the playback request is still sent in that cycle, with
\* the access token the cycle started with.
C12_StaleTokenPoll ==
    [][(Polled /\ m_logged_in /\ now > m_token_termination
          /\ ~RateLimited /\ ~BackingOff) =>
         /\ Called("do_refresh_token") = {1}
         /\ Called("player") = {2}
         /\ (~m_logged_in' => last'.calls[2].token = m_token)]_vars

C12_Witness ==
    /\ last.op = "refresh"
    /\ ~m_logged_in
    /\ Len(last.calls) = 2
    /\ last.calls[1].fn = "do_refresh_token"
    /\ last.calls[2].fn = "player"
    /\ last.calls[2].token = m_token
    /\ last.code = 401

\* C13 (as stated): after a playback poll was answered with an
\* authentication failure (401), the next poll cycle that no cooldown
\* suppresses attempts a token refresh, also when the stored expiry time has
\* not passed.
C13_AsStated ==
    [][(Polled /\ auth_failed /\ m_logged_in
          /\ ~RateLimited /\ ~BackingOff) =>
         Called("do_refresh_token") # {}]_vars

----------------------------------------------------------------------------
(* Properties of the command threads *)

\* C14 (as stated): the backoff statics of execute_command are never
\* accessed by a command thread while the poll cycle or another command
\* thread reads or writes them, so no update is lost: a thread that writes
\* the statics after its transport failure increments the multiplier as it
\* is at that moment and arms the cooldown from it.
C14_AsStated ==
    [][last'.op = "command_arm" =>
         /\ timeout_multiplier' = timeout_multiplier + 1
         /\ timeout' = BackoffStep * timeout_multiplier]_vars

InFlight == {th \in BagToSet(threads) : th.pc = "perform"}

\* C16: execute_capability returns true at once: the call sends no request
\* itself and only detaches one more thread, whatever requests are in
\* flight; a poll cycle runs from start to end while command requests are in
\* flight and leaves them in flight; and when a command's request ends,
\* whatever its outcome, no value is returned to anyone.
C16_FireAndForget ==
    [][/\ (last'.op = "execute_capability" =>
             /\ last'.result
             /\ last'.reqs = {}
             /\ last'.events = <<>>
             /\ BagCardinality(threads') = BagCardinality(threads) + 1
             /\ \A th \in BagToSet(threads) :
                    CopiesIn(th, threads') >= CopiesIn(th, threads))
       /\ (Polled => threads' = threads)
       /\ (last'.op \in {"command_gate", "command_perform", "command_arm"}
             => ~last'.result)]_vars

C16_Witness ==
    /\ last.op = "refresh"
    /\ "player" \in last.reqs
    /\ Cardinality(InFlight) = 1
    /\ BagCardinality(threads) = MaxThreads

\* C15 (as stated): execute_capability never reads the status while the
\* poll cycle is in the middle of a rebuild of the record (cleared by the
\* track parser, status not yet set again); the configuration reload touches
\* the token state only while it holds thread_mutex, and does not hold it
\* when it starts or stops the polling thread.
C15_AsStated ==
    [][/\ (last'.op = "execute_capability" => poller.pc # "rebuilding")
       /\ (last'.op = "load_sources" => thread_mutex = "load")
       /\ (last'.op = "load_thread" => thread_mutex # "load")]_vars

\* C17 (as stated): execute_capability accepts a capability exactly when it
\* is in the set declared at construction; for one outside the set no
\* thread is spawned, no request is sent and true is not returned; for one
\* inside the set a thread is spawned that hands one request to the
\* transport.
C17_AsStated ==
    [][/\ (last'.op = "execute_capability" =>
             IF last'.cap \in m_capabilities
             THEN last'.result /\ BagCardinality(threads') =
                                     BagCardinality(threads) + 1
             ELSE ~last'.result /\ threads' = threads)
       /\ (last'.op = "command_gate" =>
             /\ last'.cap \in m_capabilities
             /\ last'.skip # "no_request")
       /\ (last'.op = "command_perform" =>
             /\ last'.cap \in m_capabilities
             /\ Len(last'.calls) = 1)]_vars

\* The request the play/pause toggle is to send for a status.
Toggle(status) ==
    IF status = state_playing
    THEN [url |-> "pause", method |-> "PUT", data |-> "none"]
    ELSE [url |-> "play", method |-> "PUT", data |-> "position_ms:0"]

\* C18 (as stated): the request of a play/pause command is chosen from the
\* status and the token captured when execute_capability was called: pause
\* if the status was playing, otherwise play with position_ms = 0, with
\* that token, whatever the poll cycle has done to record and token since.
C18_AsStated ==
    [][(last'.op = "command_perform" /\ last'.cap = "CAP_PLAY_PAUSE") =>
         /\ last'.calls[1].fn = Toggle(last'.th.status)
         /\ last'.calls[1].token = last'.th.token]_vars

----------------------------------------------------------------------------
(* Properties of the diagnostics *)

\* The token values a text shows.
Secrets(text) ==
    {text.access_token, text.refresh_token}
        \cap (AccessTokens \cup RefreshTokens)

\* C19 (as stated): no text the token operations emit for diagnostics shows
\* an access token or a refresh token: neither the response that
\* request_token logs nor the `log` string that do_refresh_token and
\* new_token hand back.
C19_AsStated ==
    [][last'.op \in {"do_refresh_token", "new_token"} =>
         /\ Secrets(last'.logged) = {}
         /\ Secrets(last'.log) = {}]_vars

----------------------------------------------------------------------------
(* Properties of the Retry-After extraction *)

\* C20: from a 429 whose header has the line `Retry-After: n` the poll cycle
\* extracts n (30 for "Retry-After: 30\n"), from a header without the text
\* it extracts 0; n > 0 arms the cooldown at the present time; an extracted
\* 0 arms none: the cooldown start is 0 after the cycle and the next cycle
\* is not skipped.
C20_RetryAfter ==
    [][(Polled /\ last'.code = STATUS_RETRY_AFTER /\ last'.header # <<>>) =>
         /\ \A n \in 0..MaxSeconds, e \in LineEnds, tl \in Tails :
               last'.header = RetryText(n, e, tl) =>
                  /\ m_timeout_length' = n
                  /\ (n > 0 => m_timout_start' = now)
         /\ (last'.header \in PlainTexts => m_timeout_length' = 0)
         /\ (m_timeout_length' = 0 =>
               m_timout_start' = 0 /\ ~RateLimited')]_vars

C20_Witness ==
    /\ last.op = "refresh"
    /\ last.code = STATUS_RETRY_AFTER
    /\ last.header = <<"x", "\n", "R", "3", "0", "\r", "\n", "y", "\n">>
    /\ m_timeout_length = 30
    /\ m_timout_start = now

C20_WitnessZero ==
    /\ last.op = "refresh"
    /\ last.code = STATUS_RETRY_AFTER
    /\ last.header = <<"x", "\n", "R", "0", "\n">>
    /\ last.armed
    /\ m_timeout_length = 0
    /\ m_timout_start = 0

----------------------------------------------------------------------------
(* Properties of the requests of one poll cycle *)

ContextFields ==
    {"context", "context_url", "context_external_url", "playlist_name"}

\* The requests of one cycle: at most one playback request and one playlist
\* lookup, the lookup after a playback request that returned 200 with a
\* payload that is no ad, not private, well formed and whose `context` has a
\* string `href`.
OneRequestEach ==
    /\ Cardinality(Called("player")) <= 1
    /\ Cardinality(Called("playlist")) <= 1
    /\ (Called("playlist") # {} =>
          /\ \E i \in Called("player") : \A j \in Called("playlist") : i < j
          /\ last'.code = HTTP_OK
          /\ last'.cls = "track"
          /\ last'.formed
          /\ last'.context = "href")

\* C21 (as stated): the requests of one cycle are as above, and a cycle
\* whose playback payload has no object `context` leaves a record without
\* context type, context URI, context external URL and playlist name, and
\* sends no playlist lookup.
C21_AsStated ==
    [][Polled =>
         /\ OneRequestEach
         /\ (last'.context = "absent" =>
               /\ DOMAIN m_current' \cap ContextFields = {}
               /\ Called("playlist") = {})]_vars

\* C21 (amended): the same for a payload the track parser is run on; an
\* ad, a private session and a malformed payload leave the context fields
\* of the record as an earlier cycle set them.
C21_ContextLookup ==
    [][Polled =>
         /\ OneRequestEach
         /\ (last'.context = "absent" =>
               /\ Called("playlist") = {}
               /\ IF last'.parsed
                  THEN DOMAIN m_current' \cap ContextFields = {}
                  ELSE DOMAIN m_current' \cap ContextFields
                          = DOMAIN m_current \cap ContextFields)]_vars

C21_Witness ==
    /\ last.op = "refresh"
    /\ last.parsed
    /\ last.context = "absent"
    /\ last.had
    /\ last.reqs = {"player"}
    /\ DOMAIN m_current \cap ContextFields = {}
    /\ "title" \in DOMAIN m_current

C21_WitnessLookup ==
    /\ last.op = "refresh"
    /\ last.context = "href"
    /\ Len(last.calls) = 2
    /\ last.calls[1].fn = "player"
    /\ last.calls[2].fn = "playlist"
    /\ ContextFields \subseteq DOMAIN m_current

----------------------------------------------------------------------------
(* Properties of the release date *)

ReleaseFields == {"release_year", "release_month", "release_day"}

\* The number a part of DateParts spells, 0 for one that is no number.
PartValue(part) == IF part = <<"1", "2">> THEN 12 ELSE 0

\* The release fields for a date of these parts.
Release(parts) ==
    LET n == Len(parts) IN
    [x \in (IF Join(parts) = <<>> \/ n > 3 THEN {}
            ELSE IF n = 3 THEN ReleaseFields
            ELSE IF n = 2 THEN {"release_year", "release_month"}
            ELSE {"release_year"}) |->
        IF x = "release_year" THEN PartValue(parts[1])
        ELSE IF x = "release_month" THEN PartValue(parts[2])
        ELSE PartValue(parts[3])]

\* C22: the track parser splits the release date on "-": three parts set
\* year, month and day, two parts year and month, one part the year alone,
\* each to the number its part spells; an empty date sets no release field;
\* no field that the date does not name is set.
C22_ReleaseDate ==
    [][(Polled /\ last'.parsed) =>
         \A parts \in PartSeqs :
            last'.date = Join(parts) =>
               /\ DOMAIN m_current' \cap ReleaseFields = DOMAIN Release(parts)
               /\ \A x \in DOMAIN Release(parts) :
                     m_current'[x] = Release(parts)[x]]_vars

C22_Witness ==
    /\ last.op = "refresh"
    /\ last.parsed
    /\ last.date = <<"1", "2", "-", "x">>
    /\ last.had
    /\ DOMAIN m_current \cap ReleaseFields = {"release_year", "release_month"}
    /\ m_current["release_year"] = 12
    /\ m_current["release_month"] = 0

----------------------------------------------------------------------------
(* Properties of the transport's backoff *)

\* C23: a response that parses as JSON or has an empty body, whatever its
\* status (401, 429, 204, ...), puts the multiplier back to 1 and clears the
\* transport cooldown; a response whose non-empty body does not parse leaves
\* multiplier and cooldown start alone and arms nothing; the multiplier
\* grows only in a step in which a transport failure is handled.
C23_ResetOnResponse ==
    [][LET e == last'.events IN
       /\ ((e # <<>> /\ e[Len(e)] = "reset") =>
             /\ timeout_multiplier' = 1
             /\ timeout' = 0
             /\ timeout_start' = 0)
       /\ (e = <<"garbage">> =>
             /\ timeout_multiplier' = timeout_multiplier
             /\ timeout_start' = timeout_start
             /\ timeout' \in {0, timeout})
       /\ (timeout_multiplier' > timeout_multiplier =>
             "fail" \in Events(e))]_vars

C23_Witness ==
    /\ last.op = "refresh"
    /\ last.code = 401
    /\ last.events = <<"reset">>
    /\ last.raised
    /\ timeout_multiplier = 1
    /\ timeout = 0

C23_WitnessGarbage ==
    /\ last.op = "refresh"
    /\ last.code = 401
    /\ last.events = <<"garbage">>
    /\ last.raised
    /\ timeout_multiplier > 1
    /\ timeout = 0

C23_WitnessCommand ==
    /\ last.op = "command_perform"
    /\ last.code = HTTP_NO_CONTENT
    /\ last.events = <<"reset">>
    /\ last.raised
    /\ timeout_multiplier = 1

----------------------------------------------------------------------------
(* Properties of the poll cycle's errors *)

\* C24 (as stated): whatever header accompanies a 429, the Retry-After
\* extraction completes and the poll cycle finishes: no exception leaves
\* refresh(), also when no line break follows the text "Retry-After: " or
\* when the text after it is no number.
C24_AsStated ==
    [][Polled => ~last'.thrown]_vars

----------------------------------------------------------------------------
(* Properties of the logged-in flag *)

\* The token endpoint's answer makes a refresh succeed.
Renews(doc) ==
    doc.kind # "null" /\ doc.access_token # "absent" /\ doc.expires_in # -1

C25_WitnessFails ==
    /\ last.op = "refresh"
    /\ Len(last.calls) = 2
    /\ last.calls[1].fn = "do_refresh_token"
    /\ last.doc = NullDoc
    /\ ~m_logged_in

C25_WitnessResumes ==
    /\ last.op = "refresh"
    /\ "player" \in last.reqs
    /\ m_logged_in
    /\ m_refresh_token = "r2"

----------------------------------------------------------------------------
(* Properties of the shared transport cooldown *)

\* C26: the transport cooldown is shared by the poll cycle and the
\* commands: the transport failure of a command request arms it; a poll
\* cycle that starts while it is active sends no playback request and no
\* playlist lookup; execute_capability returns true also while it is
\* active, and a command thread that reaches the transport while it is
\* active ends without a request.
C26_SharedCooldown ==
    [][/\ (last'.op = "command_arm" =>
             /\ BackingOff'
             /\ timeout_start' = now)
       /\ ((Polled /\ BackingOff) =>
             /\ last'.reqs \cap {"player", "playlist"} = {}
             /\ last'.events = <<>>
             /\ statics' = statics)
       /\ (last'.op = "execute_capability" =>
             /\ last'.result
             /\ last'.reqs = {})
       /\ ((last'.op = "command_gate" /\ BackingOff) =>
             /\ last'.skip = IF last'.cap \in Calling THEN "backoff"
                             ELSE "no_request"
             /\ last'.reqs = {}
             /\ BagCardinality(threads') = BagCardinality(threads) - 1
             /\ \A th \in BagToSet(threads') : th \in BagToSet(threads)
             /\ statics' = statics)]_vars

C26_Witness ==
    /\ last.op = "refresh"
    /\ m_logged_in
    /\ last.skip = "none"
    /\ last.code = 0
    /\ last.reqs = {}
    /\ BackingOff
    /\ fails = 1

C26_WitnessCommand ==
    /\ last.op = "command_gate"
    /\ last.skip = "backoff"
    /\ BackingOff
    /\ threads = EmptyBag

C26_WitnessArms ==
    /\ last.op = "command_arm"
    /\ BackingOff
    /\ timeout = BackoffStep

====
